---- MODULE Spec2Model ----
(***************************************************************************)
(* Model of the HLK-LD2410B radar driver: radar_handler.py (RadarHandler)   *)
(* and calibrate_radar.py (RadarCalibrator).                                *)
(*                                                                         *)
(* The host side (the Python code) is modelled from the source.  The radar *)
(* module at the other end of the serial link is the environment: it       *)
(* streams report frames while it is not in configuration mode and answers *)
(* each command with an ACK frame that may be complete, cut short, or      *)
(* missing (read timeout).                                                  *)
(*                                                                         *)
(* Bytes are integers 0..255, byte strings are sequences of bytes.         *)
(* Not modelled: timestamps (time.time()), printing, sleeping.             *)
(***************************************************************************)
EXTENDS Integers, Sequences, FiniteSets, TLC

VARIABLES
    \* RadarHandler / RadarCalibrator fields
    engineering_mode,    \* RadarHandler.engineering_mode
    readings_buffer,     \* RadarHandler.readings_buffer
    original_settings,   \* RadarCalibrator.original_settings (<<>> stands for None)
    \* the serial link and the module behind it
    rx,                  \* bytes waiting in the host's serial input buffer
    configMode,          \* TRUE while the module is in configuration mode
    \* the configuration operation in progress
    pc,                  \* "idle", "enter", "main", "restart", "exit"
    op,                  \* [name, args] of the operation in progress / last completed
    success,             \* the operation's local `success` / `status == 0`
    ret,                 \* value returned by the last completed operation
    \* history of the operation in progress / last completed
    sent,                \* command frames written to the transport, in order
    exch,                \* exchanges: what the module answered, what the host read
    opened,              \* enable_configuration() returned True in this operation
    eng_before,          \* engineering_mode when the operation was called
    \* find_optimal_sensitivity
    spc,                 \* "none", "configure", "sample", "done"
    params,              \* [min_sensitivity, max_sensitivity, samples]
    sensitivity,         \* loop variable of the sweep
    attempt,             \* iterations of `for _ in range(samples)` done for this sensitivity
    detections,          \* local `detections`
    best_sensitivity,
    best_detection_rate, \* [num, den]: the fraction num/den
    rates,               \* history: <<[s, num, den], ...>> for every sensitivity scored
    reads,               \* history: outcomes of the read_frame calls for this sensitivity
    \* a client polling read_frame / get_motion_status
    calls,               \* history: one record per read_frame / send_command call
    motion_status,       \* last get_motion_status call: arguments and result
    \* functions applied on their own
    unit,                \* which function was applied last
    input,               \* its argument
    output,              \* its result
    \* MovingAverage (engg_mode_demo_normed.py)
    ma_size,             \* MovingAverage.size
    values,              \* MovingAverage.values
    added,               \* history: the samples passed to add, in order
    averages,            \* history: the values add returned, as fractions [num, den]
    \* RadarCalibrator.calibrate_distance
    cal_pc,              \* "none", "measure", "done"
    actual_distances,    \* argument: the requested distances
    samples_per_distance, \* argument
    dist_index,          \* position of the loop in actual_distances
    measurements,        \* local `measurements`
    calibration_data,    \* local dict: distance -> entry
    cal_reads,           \* history: results of the read_frame calls for this distance
    batches              \* history: one record per distance finished

handlerVars == <<engineering_mode, readings_buffer, original_settings>>
linkVars    == <<rx, configMode>>
opVars      == <<pc, op, success, ret, sent, exch, opened, eng_before>>
sweepVars   == <<spc, params, sensitivity, attempt, detections, best_sensitivity,
                 best_detection_rate, rates, reads>>
clientVars  == <<calls, motion_status>>
unitVars    == <<unit, input, output>>
maVars      == <<ma_size, values, added, averages>>
calVars     == <<cal_pc, actual_distances, samples_per_distance, dist_index, measurements,
                 calibration_data, cal_reads, batches>>
sideVars    == <<clientVars, unitVars, maVars, calVars>>
vars == <<handlerVars, linkVars, opVars, sweepVars, sideVars>>

---------------------------------------------------------------------------
(* Bounds of the model *)

\* sensitivities offered to the sweep are 0, 5, ..., 5 * MaxSweepIndex
MaxSweepIndex == 2
\* `samples` argument of find_optimal_sensitivity ranges over 1..MaxSamples
MaxSamples == 2
\* RadarHandler.max_buffer_size, scaled down from the source's 1000
max_buffer_size == 2
\* calls a polling client makes to read_frame / send_command
MaxCalls == 3
\* `window_size` argument of get_motion_status ranges over 0..MaxWindowSize
MaxWindowSize == 2
\* MovingAverage(size) is constructed with size in 0..MaxSize
MaxSize == 3
\* calls to MovingAverage.add
MaxAdds == 4
\* `samples_per_distance` argument of calibrate_distance ranges over 1..MaxSamplesPerDistance
MaxSamplesPerDistance == 2
\* read_frame calls followed for one distance of calibrate_distance
MaxCalReads == 3

---------------------------------------------------------------------------
(* Python byte-string primitives *)

Min(a, b) == IF a <= b THEN a ELSE b

\* b[i:j] for 0 <= i, 0 <= j
Slice(b, i, j) == SubSeq(b, i + 1, Min(j, Len(b)))

\* b[i:]
SliceFrom(b, i) == SubSeq(b, i + 1, Len(b))

\* b[i:-k]
SliceDrop(b, i, k) == SubSeq(b, i + 1, Len(b) - k)

RECURSIVE Pow256(_)
Pow256(k) == IF k = 0 THEN 1 ELSE 256 * Pow256(k - 1)

\* n.to_bytes(k, 'little') for 0 <= n < 256^k
ToBytesLE(n, k) == [i \in 1..k |-> (n \div Pow256(i - 1)) % 256]

\* int.from_bytes(b, byteorder='little'); int.from_bytes(b'') is 0
RECURSIVE FromBytesLE(_)
FromBytesLE(b) == IF b = <<>> THEN 0 ELSE b[1] + 256 * FromBytesLE(Tail(b))

\* int.from_bytes(b, byteorder='little', signed=True)
FromBytesLESigned(b) ==
    LET u == FromBytesLE(b)
    IN  IF b # <<>> /\ u >= Pow256(Len(b)) \div 2 THEN u - Pow256(Len(b)) ELSE u

EndsWith(s, t) == Len(s) >= Len(t) /\ SubSeq(s, Len(s) - Len(t) + 1, Len(s)) = t

\* pat in s
Contains(s, pat) == \E n \in 1..Len(s) : EndsWith(SubSeq(s, 1, n), pat)

\* serial.read_until(expected, size) on an input buffer holding buf: bytes are
\* taken one at a time until the line ends with `expected`, or `size` bytes
\* were taken (size = -1 stands for size=None), or no byte is left before the
\* read timeout.
ReadUntil(buf, expected, size) ==
    LET stops == {n \in 1..Len(buf) :
                    \/ EndsWith(SubSeq(buf, 1, n), expected)
                    \/ (size >= 0 /\ n >= size)}
        n     == IF stops = {} THEN Len(buf)
                 ELSE CHOOSE m \in stops : \A k \in stops : m <= k
    IN  SubSeq(buf, 1, n)

---------------------------------------------------------------------------
(* Wire format *)

COMMAND_HEADER == <<253, 252, 251, 250>>    \* FD FC FB FA
COMMAND_TAIL   == <<4, 3, 2, 1>>            \* 04 03 02 01
REPORT_HEADER  == <<244, 243, 242, 241>>    \* F4 F3 F2 F1
REPORT_TAIL    == <<248, 247, 246, 245>>    \* F8 F7 F6 F5

\* command words, bytes.fromhex('.. 00')
ENTER_CONFIG   == <<255, 0>>    \* FF 00
EXIT_CONFIG    == <<254, 0>>    \* FE 00
ENABLE_ENG     == <<98, 0>>     \* 62 00
DISABLE_ENG    == <<99, 0>>     \* 63 00
GET_PARAMS     == <<97, 0>>     \* 61 00
SET_MAX_GATES  == <<96, 0>>     \* 60 00
SET_SENS       == <<100, 0>>    \* 64 00
FACTORY_RESET  == <<162, 0>>    \* A2 00
RESTART        == <<163, 0>>    \* A3 00

\* send_command: the frame built from command_word and command_value
CommandFrame(command_word, command_value) ==
    LET intra_frame_length == Len(command_word) + Len(command_value)
    IN  COMMAND_HEADER \o ToBytesLE(intra_frame_length, 2) \o command_word
            \o command_value \o COMMAND_TAIL

\* disable_engineering_mode: the frame assembled by hand
DisableFrame_Len4 == COMMAND_HEADER \o ToBytesLE(4, 2) \o DISABLE_ENG \o COMMAND_TAIL

DisableFrame == COMMAND_HEADER \o ToBytesLE(2, 2) \o DISABLE_ENG \o COMMAND_TAIL

ParamValue_BigEndian(v0, v1, v2) ==
    <<0, 0>> \o <<0, 0, 0, v0>> \o <<0, 1>> \o <<0, 0, 0, v1>>
        \o <<0, 2>> \o <<0, 0, 0, v2>>

\* three (parameter word, 4-byte little-endian value) pairs
ParamValue(v0, v1, v2) ==
    <<0, 0>> \o ToBytesLE(v0, 4) \o <<1, 0>> \o ToBytesLE(v1, 4)
        \o <<2, 0>> \o ToBytesLE(v2, 4)

\* configure_detection_gates: value of the set-max-gates command
GatesValue(moving_gate, static_gate) == ParamValue(moving_gate, static_gate, 5)

\* configure_sensitivity: value of the set-sensitivity command
SensitivityValue(gate, motion_sensitivity, static_sensitivity) ==
    ParamValue(gate, motion_sensitivity, static_sensitivity)

---------------------------------------------------------------------------
(* The module (environment) *)

\* two's complement encodings used by the module for report fields
S16(v) == ToBytesLE(IF v < 0 THEN v + 65536 ELSE v, 2)
S8(v)  == <<IF v < 0 THEN v + 256 ELSE v>>

BasicPayload(state, md, me, sd, se, dd) ==
    <<state>> \o S16(md) \o S8(me) \o S16(sd) \o S8(se) \o S16(dd)

\* a report frame: header, length, type, AA, target data, 55 00, tail
ReportFrame(type, data) ==
    REPORT_HEADER \o ToBytesLE(Len(data) + 4, 2) \o <<type, 170>> \o data
        \o <<85, 0>> \o REPORT_TAIL

ReportNoTarget == ReportFrame(2, BasicPayload(0, 0, 0, 0, 0, 0))
ReportMoving   == ReportFrame(2, BasicPayload(1, 120, 60, 0, 0, 120))
ReportUnknown  == ReportFrame(2, BasicPayload(7, 120, 60, 0, 0, 120))

\* what the module may have streamed into the input buffer between
\* reset_input_buffer() and its handling of the command
PreStreams == {<<>>, ReportNoTarget, ReportMoving}

\* the module's answer to a command: the status it decided, and how much of
\* the ACK frame reaches the host before the read timeout: all of it ("ack"),
\* its first 10 bytes ("cut"), or nothing ("none")
Replies ==
    {[status |-> 0, kind |-> "ack"], [status |-> 1, kind |-> "ack"],
     [status |-> 0, kind |-> "cut"], [status |-> 0, kind |-> "none"]}

EnvChoices == [pre : PreStreams, reply : Replies]

\* data the module appends to the status in its ACK
AckData(word, status) ==
    IF status # 0 THEN <<>>
    ELSE IF word = ENTER_CONFIG THEN <<1, 0, 64, 0>>
    ELSE IF word = GET_PARAMS
         THEN <<170, 8, 8, 8>> \o [i \in 1..9 |-> 50] \o [i \in 1..9 |-> 40] \o <<5, 0>>
    ELSE <<>>

\* the ACK frame: header, length, word | 0x0100, status, data, tail
AckFrame(word, status) ==
    COMMAND_HEADER \o ToBytesLE(4 + Len(AckData(word, status)), 2)
        \o <<word[1], 1>> \o ToBytesLE(status, 2) \o AckData(word, status)
        \o COMMAND_TAIL

\* the bytes of the answer that reach the host
ModuleReply(word, reply) ==
    IF reply.kind = "ack" THEN AckFrame(word, reply.status)
    ELSE IF reply.kind = "cut" THEN Slice(AckFrame(word, reply.status), 0, 10)
    ELSE <<>>

\* the module's configuration mode after the command: a command it accepted
\* (status 0) takes effect whether or not the ACK reaches the host
ModuleNext(cfg, word, reply) ==
    IF reply.status # 0 THEN cfg
    ELSE IF word = ENTER_CONFIG THEN TRUE
    ELSE IF word = EXIT_CONFIG \/ word = RESTART THEN FALSE
    ELSE cfg

---------------------------------------------------------------------------
(* Command exchange *)

\* serial.write(command) followed by serial.read_until(COMMAND_TAIL, size):
\* the module streams (unless in configuration mode), receives the command
\* and answers; the host reads.
Exchange(word, value, command, e, reset, size) ==
    LET pre   == IF configMode THEN <<>> ELSE e.pre
        inbuf == (IF reset THEN <<>> ELSE rx) \o pre \o ModuleReply(word, e.reply)
        raw   == ReadUntil(inbuf, COMMAND_TAIL, size)
    IN  [word     |-> word,
         entry    |-> [word |-> word, value |-> value, bytes |-> command],
         reply    |-> e.reply,
         raw      |-> raw,
         response |-> raw,
         rest     |-> SliceFrom(inbuf, Len(raw)),
         cfg      |-> ModuleNext(configMode, word, e.reply)]

\* RadarHandler.send_command
send_command(command_word, command_value, e) ==
    LET x == Exchange(command_word, command_value,
                      CommandFrame(command_word, command_value), e, TRUE, 100)
    IN  [x EXCEPT !.response = IF Len(x.raw) < 12 THEN <<>> ELSE x.raw]

\* status test of enable_configuration / end_configuration
StatusOK(response) ==
    IF Len(response) < 12 THEN FALSE
    ELSE FromBytesLE(Slice(response, 8, 10)) = 0

\* `len(response) >= 10 and response[8:10] == b'\x00\x00'`
Status10OK(response) == Len(response) >= 10 /\ Slice(response, 8, 10) = <<0, 0>>

\* the effect of an exchange x on the link and on the history
DoExchange(x, result) ==
    /\ rx' = x.rest
    /\ configMode' = x.cfg
    /\ sent' = Append(sent, x.entry)
    /\ exch' = Append(exch, [word |-> x.word, reply |-> x.reply, raw |-> x.raw,
                             result |-> result])

---------------------------------------------------------------------------
(* What each operation does with the response to its main command:         *)
(* [flag: engineering_mode, settings: original_settings, success, next]    *)
(* next = "exit": end_configuration() is called, then the operation        *)
(* returns; next = "restart": the restart command is sent first;           *)
(* next = "return": the operation returns at once.                         *)

Outcome(flag, settings, ok, next) ==
    [flag |-> flag, settings |-> settings, success |-> ok, next |-> next]

enable_engineering_mode_NoCloseOnShort(response) ==
    IF Len(response) < 12
    THEN Outcome(engineering_mode, original_settings, FALSE, "return")
    ELSE LET status == FromBytesLE(Slice(response, 8, 10))
         IN  Outcome(IF status = 0 THEN TRUE ELSE engineering_mode,
                     original_settings, status = 0, "exit")

\* RadarHandler.enable_engineering_mode, after send_command('62 00')
enable_engineering_mode_main(response) ==
    IF Len(response) < 12
    THEN Outcome(engineering_mode, original_settings, FALSE, "exit")
    ELSE LET status == FromBytesLE(Slice(response, 8, 10))
         IN  Outcome(IF status = 0 THEN TRUE ELSE engineering_mode,
                     original_settings, status = 0, "exit")

\* RadarHandler.disable_engineering_mode, after read_until
disable_engineering_mode_main(response) ==
    LET ok == FromBytesLE(Slice(response, 8, 10)) = 0
    IN  Outcome(IF ok THEN FALSE ELSE engineering_mode, original_settings, ok, "exit")

\* RadarCalibrator.backup_settings, after send_command('61 00'); the value
\* returned is bool(self.original_settings)
backup_settings_main(response) ==
    LET settings == IF Len(response) >= 30 THEN SliceDrop(response, 8, 4)
                    ELSE original_settings
    IN  Outcome(engineering_mode, settings, settings # <<>>, "exit")

restore_factory_defaults_AlwaysRestart(response) ==
    Outcome(engineering_mode, original_settings, Status10OK(response), "restart")

\* RadarCalibrator.restore_factory_defaults, after send_command('A2 00')
restore_factory_defaults_main(response) ==
    Outcome(engineering_mode, original_settings, Status10OK(response),
            IF Status10OK(response) THEN "restart" ELSE "exit")

\* RadarCalibrator.configure_detection_gates / configure_sensitivity, after
\* send_command(command, value)
configure_main(response) ==
    Outcome(engineering_mode, original_settings, Status10OK(response), "exit")

\* argument checks
GatesArgsOK(moving_gate, static_gate) ==
    1 <= moving_gate /\ moving_gate <= 8 /\ 1 <= static_gate /\ static_gate <= 8

SensitivityArgsOK(gate, motion_sensitivity, static_sensitivity) ==
    /\ 0 <= gate /\ gate <= 8
    /\ 0 <= motion_sensitivity /\ motion_sensitivity <= 100
    /\ 0 <= static_sensitivity /\ static_sensitivity <= 100

---------------------------------------------------------------------------
(* Streaming decoder: RadarHandler.read_frame *)

parse_target_state_BothUnknown(state_byte) ==
    CASE state_byte = 0 -> "NO_TARGET"
      [] state_byte = 1 -> "MOVING_TARGET"
      [] state_byte = 2 -> "STATIC_TARGET"
      [] OTHER          -> "UNKNOWN"

\* RadarHandler._parse_target_state: TargetState(state_byte), UNKNOWN on ValueError
parse_target_state(state_byte) ==
    CASE state_byte = 0 -> "NO_TARGET"
      [] state_byte = 1 -> "MOVING_TARGET"
      [] state_byte = 2 -> "STATIC_TARGET"
      [] state_byte = 3 -> "BOTH_TARGETS"
      [] OTHER          -> "UNKNOWN"

is_valid_Exclusive(r) ==
    /\ 0 <= r.detection_distance /\ r.detection_distance < 600
    /\ -100 <= r.moving_target_energy /\ r.moving_target_energy <= 100
    /\ -100 <= r.static_target_energy /\ r.static_target_energy <= 100
    /\ r.target_state # "UNKNOWN"

\* RadarReading.is_valid
is_valid(r) ==
    /\ 0 <= r.detection_distance /\ r.detection_distance <= 600
    /\ -100 <= r.moving_target_energy /\ r.moving_target_energy <= 100
    /\ -100 <= r.static_target_energy /\ r.static_target_energy <= 100
    /\ r.target_state # "UNKNOWN"

Abs(v) == IF v < 0 THEN -v ELSE v

\* engineering_data = None
NoEngineeringData ==
    [present |-> FALSE, max_moving_distance_gate |-> 0, max_static_distance_gate |-> 0,
     moving_energy_gates |-> <<>>, static_energy_gates |-> <<>>]

\* `for i in range(n): if offset + i < len(eng_data): energies.append(eng_data[offset + i])`
RECURSIVE GateEnergies(_, _, _, _, _)
GateEnergies(eng_data, offset, i, n, energies) ==
    IF i >= n THEN energies
    ELSE GateEnergies(eng_data, offset, i + 1, n,
                      IF offset + i < Len(eng_data)
                      THEN Append(energies, eng_data[offset + i + 1])
                      ELSE energies)

\* the EngineeringData parsed from target_data[9:] (at least 2 bytes long)
ParseEngineering(eng_data) ==
    LET max_moving_gate == eng_data[1]
        max_static_gate == eng_data[2]
    IN  [present |-> TRUE,
         max_moving_distance_gate |-> max_moving_gate,
         max_static_distance_gate |-> max_static_gate,
         moving_energy_gates |-> GateEnergies(eng_data, 2, 0, max_moving_gate + 1, <<>>),
         static_energy_gates |->
             GateEnergies(eng_data, 2 + max_moving_gate + 1, 0, max_static_gate + 1, <<>>)]

\* the RadarReading built from the 9 basic bytes
ParseBasic(basic_data, engineering_data) ==
    [target_state           |-> parse_target_state(basic_data[1]),
     moving_target_distance |-> FromBytesLESigned(Slice(basic_data, 1, 3)),
     moving_target_energy   |-> FromBytesLESigned(Slice(basic_data, 3, 4)),
     static_target_distance |-> FromBytesLESigned(Slice(basic_data, 4, 6)),
     static_target_energy   |-> FromBytesLESigned(Slice(basic_data, 6, 7)),
     detection_distance     |-> Abs(FromBytesLESigned(Slice(basic_data, 7, 9))),
     engineering_data       |-> engineering_data]

DecodeOutcome_IgnoresFlag(serial_line, flag) ==
    IF ~(Contains(serial_line, REPORT_HEADER) /\ Contains(serial_line, REPORT_TAIL))
    THEN [candidate |-> <<>>, caught |-> "none"]
    ELSE LET target_data == SliceDrop(serial_line, 8, 6)
         IN  IF Len(target_data) < 9 THEN [candidate |-> <<>>, caught |-> "none"]
             ELSE LET basic_data == Slice(target_data, 0, 9)
                      eng_data   == SliceFrom(target_data, 9)
                  IN  IF Len(target_data) > 9 /\ Len(eng_data) < 2
                      THEN [candidate |-> <<>>, caught |-> "IndexError"]
                      ELSE [candidate |->
                                <<ParseBasic(basic_data,
                                             IF Len(target_data) > 9
                                             THEN ParseEngineering(eng_data)
                                             ELSE NoEngineeringData)>>,
                            caught |-> "none"]

\* read_frame from read_until up to the RadarReading(...) constructor:
\* candidate is <<>> when the line is rejected, <<reading>> otherwise; caught
\* names the exception the except clause swallowed ("none" when there was
\* none).  eng_data[1] on a 1-byte eng_data raises IndexError.
DecodeOutcome(serial_line, flag) ==
    IF ~(Contains(serial_line, REPORT_HEADER) /\ Contains(serial_line, REPORT_TAIL))
    THEN [candidate |-> <<>>, caught |-> "none"]
    ELSE LET target_data == SliceDrop(serial_line, 8, 6)
         IN  IF Len(target_data) < 9 THEN [candidate |-> <<>>, caught |-> "none"]
             ELSE LET basic_data == Slice(target_data, 0, 9)
                      eng_data   == SliceFrom(target_data, 9)
                  IN  IF flag /\ Len(target_data) > 9 /\ Len(eng_data) < 2
                      THEN [candidate |-> <<>>, caught |-> "IndexError"]
                      ELSE [candidate |->
                                <<ParseBasic(basic_data,
                                             IF flag /\ Len(target_data) > 9
                                             THEN ParseEngineering(eng_data)
                                             ELSE NoEngineeringData)>>,
                            caught |-> "none"]

DecodeFrame_Unvalidated(serial_line, flag) ==
    DecodeOutcome(serial_line, flag).candidate

\* read_frame after read_until: <<>> for None, <<reading>> for a Reading
DecodeFrame(serial_line, flag) ==
    LET d == DecodeOutcome(serial_line, flag)
    IN  IF d.candidate # <<>> /\ is_valid(d.candidate[1]) THEN d.candidate ELSE <<>>

BufferAppend_PopNewest(buffer, reading) ==
    LET b == Append(buffer, reading)
    IN  IF Len(b) > max_buffer_size THEN SubSeq(b, 1, Len(b) - 1) ELSE b

\* readings_buffer after `append(reading)` and `pop(0)` beyond max_buffer_size
BufferAppend(buffer, reading) ==
    LET b == Append(buffer, reading)
    IN  IF Len(b) > max_buffer_size THEN Tail(b) ELSE b

\* what the module streams while the host waits in read_frame
StreamChunks == {ReportNoTarget, ReportMoving, ReportUnknown, <<>>}

\* one read_frame call, the module streaming `chunk` (nothing in configuration mode)
ReadFrame(chunk) ==
    LET inbuf       == rx \o (IF configMode THEN <<>> ELSE chunk)
        serial_line == ReadUntil(inbuf, REPORT_TAIL, -1)
        result      == DecodeFrame(serial_line, engineering_mode)
    IN  [result |-> result,
         rest   |-> SliceFrom(inbuf, Len(serial_line)),
         buffer |-> IF result # <<>> THEN BufferAppend(readings_buffer, result[1])
                    ELSE readings_buffer,
         line   |-> serial_line,
         decode |-> DecodeOutcome(serial_line, engineering_mode)]

---------------------------------------------------------------------------
(* Initial state: RadarHandler.__init__ and RadarCalibrator.__init__ *)

\* everything but the engineering-mode flag and the MovingAverage window
InitRest ==
    /\ readings_buffer = <<>>
    /\ original_settings = <<>>
    /\ rx = <<>>
    /\ configMode \in BOOLEAN
    /\ pc = "idle"
    /\ op = [name |-> "none", args |-> <<>>]
    /\ success = FALSE
    /\ ret = FALSE
    /\ sent = <<>>
    /\ exch = <<>>
    /\ opened = FALSE
    /\ eng_before = FALSE
    /\ spc = "none"
    /\ params = [min_sensitivity |-> 0, max_sensitivity |-> 0, samples |-> 1]
    /\ sensitivity = 0
    /\ attempt = 0
    /\ detections = 0
    /\ best_sensitivity = 0
    /\ best_detection_rate = [num |-> 0, den |-> 1]
    /\ rates = <<>>
    /\ reads = <<>>
    /\ calls = <<>>
    /\ motion_status = [window_size |-> 0, buffer |-> <<>>,
                        motion_detected |-> FALSE, static_detected |-> FALSE]
    /\ unit = "none"
    /\ input = <<>>
    /\ output = <<>>
    /\ values = <<>>
    /\ added = <<>>
    /\ averages = <<>>
    /\ cal_pc = "none"
    /\ actual_distances = <<>>
    /\ samples_per_distance = 1
    /\ dist_index = 1
    /\ measurements = <<>>
    /\ calibration_data = <<>>
    /\ cal_reads = <<>>
    /\ batches = <<>>

Init ==
    /\ engineering_mode = FALSE
    /\ ma_size = 0
    /\ InitRest

---------------------------------------------------------------------------
(* Configuration operations, one step per command exchange *)

\* entry into an operation: a fresh history
Begin(name, args) ==
    /\ op' = [name |-> name, args |-> args]
    /\ sent' = <<>>
    /\ exch' = <<>>
    /\ opened' = FALSE
    /\ eng_before' = engineering_mode
    /\ success' = FALSE

\* the operation returns r; a sweep waiting on configure_sensitivity goes on
Return(r) ==
    /\ ret' = r
    /\ pc' = "idle"
    /\ spc' = IF spc = "configure" THEN "sample" ELSE spc

\* a caller outside the sweep invokes an operation without arguments
Call(name) ==
    /\ pc = "idle" /\ spc = "none"
    /\ Begin(name, <<>>)
    /\ pc' = "enter"
    /\ UNCHANGED <<handlerVars, linkVars, ret, sweepVars>>
    /\ UNCHANGED sideVars

CallEnableEngineeringMode  == Call("enable_engineering_mode")
CallDisableEngineeringMode == Call("disable_engineering_mode")
CallBackupSettings         == Call("backup_settings")
CallRestoreFactoryDefaults == Call("restore_factory_defaults")

\* arguments offered to configure_detection_gates and configure_sensitivity
GateInputs == {<<1, 8>>, <<8, 1>>, <<0, 1>>, <<1, 0>>, <<9, 8>>, <<8, 9>>}
SensitivityInputs ==
    {<<0, 0, 100>>, <<8, 100, 0>>, <<9, 0, 0>>, <<255, 50, 50>>, <<-1, 0, 0>>,
     <<0, 101, 0>>, <<0, 0, 101>>, <<0, -1, 0>>, <<0, 0, -1>>}

\* configure_detection_gates up to enable_configuration
CallConfigureDetectionGates ==
    /\ pc = "idle" /\ spc = "none"
    /\ \E g \in GateInputs :
         /\ Begin("configure_detection_gates", g)
         /\ IF GatesArgsOK(g[1], g[2])
            THEN pc' = "enter" /\ UNCHANGED <<ret, spc>>
            ELSE Return(FALSE)
    /\ UNCHANGED <<handlerVars, linkVars, params, sensitivity, attempt, detections,
                   best_sensitivity, best_detection_rate, rates, reads>>
    /\ UNCHANGED sideVars

\* configure_sensitivity up to enable_configuration
configure_sensitivity(gate, motion_sensitivity, static_sensitivity) ==
    /\ Begin("configure_sensitivity", <<gate, motion_sensitivity, static_sensitivity>>)
    /\ IF SensitivityArgsOK(gate, motion_sensitivity, static_sensitivity)
       THEN pc' = "enter" /\ UNCHANGED <<ret, spc>>
       ELSE Return(FALSE)

CallConfigureSensitivity ==
    /\ pc = "idle" /\ spc = "none"
    /\ \E s \in SensitivityInputs : configure_sensitivity(s[1], s[2], s[3])
    /\ UNCHANGED <<handlerVars, linkVars, params, sensitivity, attempt, detections,
                   best_sensitivity, best_detection_rate, rates, reads>>
    /\ UNCHANGED sideVars

EnterConfig_IgnoresResult ==
    /\ pc = "enter"
    /\ \E e \in EnvChoices :
         LET x == send_command(ENTER_CONFIG, <<1, 0>>, e)
             r == StatusOK(x.response)
         IN  /\ DoExchange(x, r)
             /\ opened' = r
             /\ pc' = "main" /\ UNCHANGED <<ret, spc>>
    /\ UNCHANGED <<handlerVars, op, success, eng_before, params, sensitivity, attempt,
                   detections, best_sensitivity, best_detection_rate, rates, reads>>
    /\ UNCHANGED sideVars

\* enable_configuration as the first step of every operation; every
\* operation returns False when it fails
EnterConfig ==
    /\ pc = "enter"
    /\ \E e \in EnvChoices :
         LET x == send_command(ENTER_CONFIG, <<1, 0>>, e)
             r == StatusOK(x.response)
         IN  /\ DoExchange(x, r)
             /\ opened' = r
             /\ IF r THEN pc' = "main" /\ UNCHANGED <<ret, spc>>
                ELSE Return(FALSE)
    /\ UNCHANGED <<handlerVars, op, success, eng_before, params, sensitivity, attempt,
                   detections, best_sensitivity, best_detection_rate, rates, reads>>
    /\ UNCHANGED sideVars

MainStep_ClearsBuffer(name, x, o) ==
    /\ pc = "main" /\ op.name = name
    /\ DoExchange(x, o.success)
    /\ engineering_mode' = o.flag
    /\ original_settings' = o.settings
    /\ success' = o.success
    /\ readings_buffer' = <<>>
    /\ IF o.next = "return" THEN Return(o.success)
       ELSE pc' = o.next /\ UNCHANGED <<ret, spc>>
    /\ UNCHANGED <<op, opened, eng_before, params, sensitivity, attempt,
                   detections, best_sensitivity, best_detection_rate, rates, reads>>
    /\ UNCHANGED sideVars

\* the operation's own command and what it does with the response
MainStep(name, x, o) ==
    /\ pc = "main" /\ op.name = name
    /\ DoExchange(x, o.success)
    /\ engineering_mode' = o.flag
    /\ original_settings' = o.settings
    /\ success' = o.success
    /\ IF o.next = "return" THEN Return(o.success)
       ELSE pc' = o.next /\ UNCHANGED <<ret, spc>>
    /\ UNCHANGED <<readings_buffer, op, opened, eng_before, params, sensitivity, attempt,
                   detections, best_sensitivity, best_detection_rate, rates, reads>>
    /\ UNCHANGED sideVars

MainEnableEngineeringMode ==
    \E e \in EnvChoices :
        LET x == send_command(ENABLE_ENG, <<>>, e)
        IN  MainStep("enable_engineering_mode", x, enable_engineering_mode_main(x.response))

\* serial.write(command); serial.read_until(COMMAND_TAIL): no reset of the
\* input buffer, no size limit, no length check
MainDisableEngineeringMode ==
    \E e \in EnvChoices :
        LET x == Exchange(DISABLE_ENG, <<>>, DisableFrame, e, FALSE, -1)
        IN  MainStep("disable_engineering_mode", x, disable_engineering_mode_main(x.response))

MainBackupSettings ==
    \E e \in EnvChoices :
        LET x == send_command(GET_PARAMS, <<>>, e)
        IN  MainStep("backup_settings", x, backup_settings_main(x.response))

MainRestoreFactoryDefaults ==
    \E e \in EnvChoices :
        LET x == send_command(FACTORY_RESET, <<>>, e)
        IN  MainStep("restore_factory_defaults", x, restore_factory_defaults_main(x.response))

MainConfigureDetectionGates ==
    \E e \in EnvChoices :
        LET x == send_command(SET_MAX_GATES, GatesValue(op.args[1], op.args[2]), e)
        IN  MainStep("configure_detection_gates", x, configure_main(x.response))

MainConfigureSensitivity ==
    \E e \in EnvChoices :
        LET x == send_command(SET_SENS,
                              SensitivityValue(op.args[1], op.args[2], op.args[3]), e)
        IN  MainStep("configure_sensitivity", x, configure_main(x.response))

\* restore_factory_defaults: send_command('A3 00'), response ignored
Restart ==
    /\ pc = "restart"
    /\ \E e \in EnvChoices :
         LET x == send_command(RESTART, <<>>, e)
         IN  DoExchange(x, StatusOK(x.response))
    /\ pc' = "exit"
    /\ UNCHANGED <<handlerVars, op, success, ret, opened, eng_before, sweepVars>>
    /\ UNCHANGED sideVars

\* end_configuration (its result is ignored by every caller), then return
ExitConfig ==
    /\ pc = "exit"
    /\ \E e \in EnvChoices :
         LET x == send_command(EXIT_CONFIG, <<>>, e)
         IN  DoExchange(x, StatusOK(x.response))
    /\ Return(success)
    /\ UNCHANGED <<handlerVars, op, success, opened, eng_before, params, sensitivity,
                   attempt, detections, best_sensitivity, best_detection_rate, rates,
                   reads>>
    /\ UNCHANGED sideVars

Next ==
    \/ CallEnableEngineeringMode
    \/ CallDisableEngineeringMode
    \/ CallBackupSettings
    \/ CallRestoreFactoryDefaults
    \/ CallConfigureDetectionGates
    \/ CallConfigureSensitivity
    \/ EnterConfig
    \/ MainEnableEngineeringMode
    \/ MainDisableEngineeringMode
    \/ MainBackupSettings
    \/ MainRestoreFactoryDefaults
    \/ MainConfigureDetectionGates
    \/ MainConfigureSensitivity
    \/ Restart
    \/ ExitConfig

Spec == Init /\ [][Next]_vars

---------------------------------------------------------------------------
(* RadarCalibrator.find_optimal_sensitivity, one step per call it makes *)

\* min_sensitivity / max_sensitivity offered to the sweep
SweepInputs == {5 * i : i \in 0..MaxSweepIndex}

\* `detection_rate > best_detection_rate` on fractions
RateGreater(a, b) == a.num * b.den > b.num * a.den

\* entry: best_sensitivity = 0, best_detection_rate = 0, and the first value
\* of range(min_sensitivity, max_sensitivity + 1, 5), if any
StartSweep ==
    /\ pc = "idle" /\ spc = "none"
    /\ \E lo \in SweepInputs, hi \in SweepInputs, n \in 1..MaxSamples :
         /\ params' = [min_sensitivity |-> lo, max_sensitivity |-> hi, samples |-> n]
         /\ sensitivity' = lo
         /\ spc' = IF lo < hi + 1 THEN "configure" ELSE "done"
    /\ best_sensitivity' = 0
    /\ best_detection_rate' = [num |-> 0, den |-> 1]
    /\ rates' = <<>>
    /\ reads' = <<>>
    /\ attempt' = 0
    /\ detections' = 0
    /\ UNCHANGED <<handlerVars, linkVars, opVars>>
    /\ UNCHANGED sideVars

\* self.configure_sensitivity(0xFF, sensitivity, sensitivity); detections = 0
SweepConfigure ==
    /\ pc = "idle" /\ spc = "configure"
    /\ configure_sensitivity(255, sensitivity, sensitivity)
    /\ detections' = 0
    /\ attempt' = 0
    /\ reads' = <<>>
    /\ UNCHANGED <<handlerVars, linkVars, params, sensitivity, best_sensitivity,
                   best_detection_rate, rates>>
    /\ UNCHANGED sideVars

\* one iteration of `for _ in range(samples)`: read_frame and count
SweepSample ==
    /\ pc = "idle" /\ spc = "sample"
    /\ attempt < params.samples
    /\ \E chunk \in StreamChunks :
         LET f == ReadFrame(chunk)
         IN  /\ rx' = f.rest
             /\ readings_buffer' = f.buffer
             /\ detections' = IF /\ f.result # <<>>
                                 /\ is_valid(f.result[1])
                                 /\ f.result[1].target_state # "NO_TARGET"
                              THEN detections + 1 ELSE detections
             /\ reads' = Append(reads, IF f.result = <<>> THEN "None"
                                       ELSE f.result[1].target_state)
    /\ attempt' = attempt + 1
    /\ UNCHANGED <<engineering_mode, original_settings, configMode, opVars, spc, params,
                   sensitivity, best_sensitivity, best_detection_rate, rates>>
    /\ UNCHANGED sideVars

\* after the samples: detection_rate, the best pair, and the next sensitivity
SweepScore ==
    /\ pc = "idle" /\ spc = "sample"
    /\ attempt = params.samples
    /\ LET detection_rate == [num |-> detections, den |-> params.samples]
       IN  /\ IF RateGreater(detection_rate, best_detection_rate)
              THEN /\ best_detection_rate' = detection_rate
                   /\ best_sensitivity' = sensitivity
              ELSE UNCHANGED <<best_detection_rate, best_sensitivity>>
           /\ rates' = Append(rates,
                  [s |-> sensitivity, num |-> detections, den |-> params.samples,
                   valid |-> Cardinality({k \in DOMAIN reads : reads[k] # "None"})])
    /\ IF sensitivity + 5 < params.max_sensitivity + 1
       THEN sensitivity' = sensitivity + 5 /\ spc' = "configure"
       ELSE spc' = "done" /\ UNCHANGED sensitivity
    /\ UNCHANGED <<handlerVars, linkVars, opVars, params, attempt, detections, reads>>
    /\ UNCHANGED sideVars

NextSweep ==
    \/ StartSweep
    \/ SweepConfigure
    \/ SweepSample
    \/ SweepScore
    \/ CallConfigureSensitivity
    \/ EnterConfig
    \/ MainConfigureSensitivity
    \/ ExitConfig

SpecSweep == Init /\ [][NextSweep]_vars

---------------------------------------------------------------------------
(* A client polling the decoder: read_frame and get_motion_status *)

\* b[-k:] for k >= 0; b[-0:] is b[0:], the whole sequence
SliceLast(b, k) ==
    IF k = 0 THEN b
    ELSE SubSeq(b, (IF Len(b) - k < 0 THEN 0 ELSE Len(b) - k) + 1, Len(b))

\* engineering-mode report frames (type 01): basic data, the two gate
\* counts, moving energies, static energies
ReportEngineering ==
    ReportFrame(1, BasicPayload(3, 120, 60, 200, 40, 120) \o <<2, 1>>
                       \o <<10, 20, 30>> \o <<40, 50>>)
\* max_moving_gate = 2 with only two trailing bytes
ReportEngShort ==
    ReportFrame(1, BasicPayload(2, 0, 0, 200, 40, 200) \o <<2, 1>> \o <<10, 20>>)
\* a single byte after the basic data
ReportEngOneByte == ReportFrame(1, BasicPayload(1, 120, 60, 0, 0, 120) \o <<2>>)
\* gate bytes that spell the report tail F8 F7 F6 F5
ReportEngTail ==
    ReportFrame(1, BasicPayload(1, 120, 60, 0, 0, 120) \o <<2, 2>>
                       \o <<10, 20, 248>> \o <<247, 246, 245>> \o <<50, 60>>)

\* bytes without a tail sentinel in front of a frame: three leftover bytes,
\* and an engineering frame that stopped after its two gate counts
LeftoverBytes == <<3, 2, 1>>
PartialFrame  == Slice(ReportEngineering, 0, 19)

\* what reaches the input buffer while the host waits in read_frame: `pre`
\* holds no tail sentinel, `frame` is a report frame or nothing (timeout)
StreamItems ==
    {[pre |-> <<>>, frame |-> f] :
        f \in {<<>>, ReportNoTarget, ReportMoving, ReportUnknown, ReportEngineering,
               ReportEngShort, ReportEngOneByte, ReportEngTail}}
    \cup {[pre |-> LeftoverBytes, frame |-> ReportNoTarget],
          [pre |-> PartialFrame, frame |-> ReportNoTarget]}

\* the client's state after construction; engineering_mode is TRUE when it
\* completed enable_engineering_mode before polling
InitRead ==
    /\ engineering_mode \in BOOLEAN
    /\ ma_size = 0
    /\ InitRest

\* one read_frame call
ReadFrameCall ==
    /\ pc = "idle" /\ spc = "none"
    /\ Len(calls) < MaxCalls
    /\ \E item \in StreamItems :
         LET f == ReadFrame(item.pre \o item.frame)
         IN  /\ rx' = f.rest
             /\ readings_buffer' = f.buffer
             /\ calls' = Append(calls,
                    [call |-> "read_frame", flag |-> engineering_mode,
                     line |-> f.line, candidate |-> f.decode.candidate,
                     caught |-> f.decode.caught, result |-> f.result,
                     before |-> readings_buffer, after |-> f.buffer,
                     fault |-> FALSE, escaped |-> FALSE])
    /\ UNCHANGED <<engineering_mode, original_settings, configMode, opVars, sweepVars,
                   motion_status, unitVars, maVars, calVars>>

\* read_frame when serial.read_until raises: the except clause catches the
\* exception and read_frame returns None
ReadFrameTransportError ==
    /\ pc = "idle" /\ spc = "none"
    /\ Len(calls) < MaxCalls
    /\ calls' = Append(calls,
           [call |-> "read_frame", flag |-> engineering_mode,
            line |-> <<>>, candidate |-> <<>>,
            caught |-> "SerialException", result |-> <<>>,
            before |-> readings_buffer, after |-> readings_buffer,
            fault |-> TRUE, escaped |-> FALSE])
    /\ UNCHANGED <<handlerVars, linkVars, opVars, sweepVars, motion_status, unitVars,
                   maVars, calVars>>

\* send_command when serial.write raises, after reset_input_buffer(): no
\* handler, the exception leaves send_command and its caller
SendCommandTransportError ==
    /\ pc = "idle" /\ spc = "none"
    /\ Len(calls) < MaxCalls
    /\ rx' = <<>>
    /\ calls' = Append(calls,
           [call |-> "send_command", flag |-> engineering_mode,
            line |-> <<>>, candidate |-> <<>>,
            caught |-> "none", result |-> <<>>,
            before |-> readings_buffer, after |-> readings_buffer,
            fault |-> TRUE, escaped |-> TRUE])
    /\ UNCHANGED <<handlerVars, configMode, opVars, sweepVars, motion_status, unitVars,
                   maVars, calVars>>

\* RadarHandler.get_motion_status: <<motion_detected, static_detected>>
get_motion_status(buffer, window_size) ==
    IF Len(buffer) < window_size THEN <<FALSE, FALSE>>
    ELSE LET recent_readings == SliceLast(buffer, window_size)
         IN  <<\E i \in DOMAIN recent_readings :
                   recent_readings[i].target_state \in {"MOVING_TARGET", "BOTH_TARGETS"},
               \E i \in DOMAIN recent_readings :
                   recent_readings[i].target_state \in {"STATIC_TARGET", "BOTH_TARGETS"}>>

GetMotionStatus ==
    /\ pc = "idle" /\ spc = "none"
    /\ \E w \in 0..MaxWindowSize :
         LET r == get_motion_status(readings_buffer, w)
         IN  motion_status' = [window_size |-> w, buffer |-> readings_buffer,
                               motion_detected |-> r[1], static_detected |-> r[2]]
    /\ UNCHANGED <<handlerVars, linkVars, opVars, sweepVars, calls, unitVars, maVars, calVars>>

NextRead ==
    \/ ReadFrameCall
    \/ ReadFrameTransportError
    \/ SendCommandTransportError
    \/ GetMotionStatus

SpecRead == InitRead /\ [][NextRead]_vars

---------------------------------------------------------------------------
(* RadarReading.is_valid and the decoding of a basic payload, on their own *)

\* RadarReading objects handed to is_valid
ReadingInputs ==
    [target_state           : {"NO_TARGET", "BOTH_TARGETS", "UNKNOWN"},
     moving_target_distance : {0},
     moving_target_energy   : {-101, -100, 100, 101},
     static_target_distance : {0},
     static_target_energy   : {-101, -100, 0, 100, 101},
     detection_distance     : {-1, 0, 600, 601},
     engineering_data       : {NoEngineeringData}]

IsValidCall ==
    /\ unit = "none"
    /\ \E r \in ReadingInputs :
         /\ input' = r
         /\ output' = is_valid(r)
    /\ unit' = "is_valid"
    /\ UNCHANGED <<handlerVars, linkVars, opVars, sweepVars, clientVars, maVars, calVars>>

\* field values the module encodes into a basic payload
FieldInputs ==
    [state : {0, 1},
     md    : {-32768, -2056, -1, 120, 32767},
     me    : {-100, -10, 100, 101},
     sd    : {-32768, 0, 245, 32767},
     se    : {-101, -100, 0, 100},
     dd    : {-600, -1, 0, 600, 601}]

\* the module sends one basic report frame carrying the fields; read_frame
\* reads up to the tail sentinel and decodes
EncodeDecodeCall ==
    /\ unit = "none"
    /\ \E f \in FieldInputs :
         LET frame == ReportFrame(2, BasicPayload(f.state, f.md, f.me, f.sd, f.se, f.dd))
             serial_line == ReadUntil(frame, REPORT_TAIL, -1)
         IN  /\ input' = f
             /\ output' = DecodeFrame(serial_line, engineering_mode)
    /\ unit' = "read_frame"
    /\ UNCHANGED <<handlerVars, linkVars, opVars, sweepVars, clientVars, maVars, calVars>>

\* _parse_target_state on one byte, and read_frame on a basic report frame
\* that carries the byte as its state
ParseTargetStateCall ==
    /\ unit = "none"
    /\ \E state_byte \in 0..255 :
         LET frame == ReportFrame(2, BasicPayload(state_byte, 120, 60, 0, 0, 120))
             serial_line == ReadUntil(frame, REPORT_TAIL, -1)
         IN  /\ input' = state_byte
             /\ output' = [state  |-> parse_target_state(state_byte),
                           decode |-> DecodeOutcome(serial_line, engineering_mode),
                           result |-> DecodeFrame(serial_line, engineering_mode)]
    /\ unit' = "parse_target_state"
    /\ UNCHANGED <<handlerVars, linkVars, opVars, sweepVars, clientVars, maVars, calVars>>

NextUnits ==
    \/ IsValidCall
    \/ EncodeDecodeCall
    \/ ParseTargetStateCall

SpecUnits == Init /\ [][NextUnits]_vars

---------------------------------------------------------------------------
(* MovingAverage (engg_mode_demo_normed.py) *)

\* deque(maxlen=size).append(value): the oldest entry leaves when full
DequeAppend_NoEvict(deque, value, maxlen) == Append(deque, value)

DequeAppend(deque, value, maxlen) ==
    LET d == Append(deque, value)
    IN  IF Len(d) > maxlen THEN Tail(d) ELSE d

\* sum(self.values)
RECURSIVE sum(_)
sum(v) == IF v = <<>> THEN 0 ELSE v[1] + sum(Tail(v))

\* MovingAverage.average, as the fraction num / den
average(v) ==
    IF v = <<>> THEN [num |-> 0, den |-> 1]
    ELSE [num |-> sum(v), den |-> Len(v)]

\* samples passed to add
SampleInputs == {10, 20, 30, 40}

\* MovingAverage(size)
InitMovingAverage ==
    /\ engineering_mode = FALSE
    /\ ma_size \in 0..MaxSize
    /\ InitRest

\* MovingAverage.add
add ==
    /\ Len(added) < MaxAdds
    /\ \E value \in SampleInputs :
         /\ values' = DequeAppend(values, value, ma_size)
         /\ added' = Append(added, value)
         /\ averages' = Append(averages, average(DequeAppend(values, value, ma_size)))
    /\ UNCHANGED <<handlerVars, linkVars, opVars, sweepVars, clientVars, unitVars, ma_size,
                   calVars>>

NextMovingAverage ==
    \/ add

SpecMovingAverage == InitMovingAverage /\ [][NextMovingAverage]_vars

---------------------------------------------------------------------------
(* RadarCalibrator.calibrate_distance, one step per read_frame call *)

\* `actual_distances` arguments (cm)
DistanceLists == {<<75>>, <<75, 150>>, <<150, 75>>, <<75, 75>>}

\* what the module streams while calibrate_distance waits in read_frame
CalibrationChunks == {ReportNoTarget, ReportMoving, ReportEngShort, <<>>}

Measure_DropsReading(m, result) == m

\* `if reading and reading.is_valid(): measurements.append(reading.detection_distance)`
Measure(m, result) ==
    IF result # <<>> /\ is_valid(result[1])
    THEN Append(m, result[1].detection_distance)
    ELSE m

\* the entry stored for a distance; numbers are fractions [num, den]:
\* measured_avg = np.mean(measurements), error = measured_avg - distance,
\* error_percent = ((measured_avg - distance) / distance) * 100
CalibrationEntry(m, distance) ==
    LET measured_avg == [num |-> sum(m), den |-> Len(m)]
        error == [num |-> measured_avg.num - distance * measured_avg.den,
                  den |-> measured_avg.den]
    IN  [measured_avg  |-> measured_avg,
         error         |-> error,
         error_percent |-> [num |-> error.num * 100, den |-> error.den * distance]]

\* calibration_data[distance] = entry
DictSet(d, key, entry) ==
    [k \in DOMAIN d \cup {key} |-> IF k = key THEN entry ELSE d[k]]

\* entry: calibration_data = {} and the first distance
StartCalibration ==
    /\ pc = "idle" /\ spc = "none" /\ cal_pc = "none"
    /\ \E distances \in DistanceLists, m \in 1..MaxSamplesPerDistance :
         /\ actual_distances' = distances
         /\ samples_per_distance' = m
    /\ cal_pc' = "measure"
    /\ dist_index' = 1
    /\ measurements' = <<>>
    /\ calibration_data' = <<>>
    /\ cal_reads' = <<>>
    /\ batches' = <<>>
    /\ UNCHANGED <<handlerVars, linkVars, opVars, sweepVars, clientVars, unitVars, maVars>>

\* one iteration of `while len(measurements) < samples_per_distance`
CalibrateRead ==
    /\ cal_pc = "measure"
    /\ Len(measurements) < samples_per_distance
    /\ Len(cal_reads) < MaxCalReads
    /\ \E chunk \in CalibrationChunks :
         LET f == ReadFrame(chunk)
         IN  /\ rx' = f.rest
             /\ readings_buffer' = f.buffer
             /\ measurements' = Measure(measurements, f.result)
             /\ cal_reads' = Append(cal_reads, f.result)
    /\ UNCHANGED <<engineering_mode, original_settings, configMode, opVars, sweepVars,
                   clientVars, unitVars, maVars, cal_pc, actual_distances,
                   samples_per_distance, dist_index, calibration_data, batches>>

\* after the loop: the entry for this distance, then the next distance
CalibrateStore ==
    /\ cal_pc = "measure"
    /\ Len(measurements) >= samples_per_distance
    /\ LET distance == actual_distances[dist_index]
       IN  /\ calibration_data' =
                  DictSet(calibration_data, distance, CalibrationEntry(measurements, distance))
           /\ batches' = Append(batches, [distance |-> distance, reads |-> cal_reads,
                                          measurements |-> measurements])
    /\ IF dist_index < Len(actual_distances)
       THEN dist_index' = dist_index + 1 /\ UNCHANGED cal_pc
       ELSE cal_pc' = "done" /\ UNCHANGED dist_index
    /\ measurements' = <<>>
    /\ cal_reads' = <<>>
    /\ UNCHANGED <<handlerVars, linkVars, opVars, sweepVars, clientVars, unitVars, maVars,
                   actual_distances, samples_per_distance>>

\* an iteration of the same loop after the history of reads is full: the
\* loop has no counter and no clock, so the call is made as before
CalibrateReadUntraced ==
    /\ cal_pc = "measure"
    /\ Len(measurements) < samples_per_distance
    /\ Len(cal_reads) >= MaxCalReads
    /\ \E chunk \in CalibrationChunks :
         LET f == ReadFrame(chunk)
         IN  /\ rx' = f.rest
             /\ readings_buffer' = f.buffer
             /\ measurements' = Measure(measurements, f.result)
    /\ UNCHANGED <<engineering_mode, original_settings, configMode, opVars, sweepVars,
                   clientVars, unitVars, maVars, cal_pc, actual_distances,
                   samples_per_distance, dist_index, calibration_data, cal_reads, batches>>

NextCalibrate ==
    \/ StartCalibration
    \/ CalibrateRead
    \/ CalibrateStore

SpecCalibrate == Init /\ [][NextCalibrate]_vars

\* an iteration in which read_frame returned a valid Reading
CalibrateReadValid ==
    /\ cal_pc = "measure"
    /\ Len(measurements) < samples_per_distance
    /\ \E chunk \in CalibrationChunks :
         LET f == ReadFrame(chunk)
         IN  /\ f.result # <<>> /\ is_valid(f.result[1])
             /\ rx' = f.rest
             /\ readings_buffer' = f.buffer
             /\ measurements' = Measure(measurements, f.result)
             /\ cal_reads' = IF Len(cal_reads) < MaxCalReads
                             THEN Append(cal_reads, f.result) ELSE cal_reads
    /\ UNCHANGED <<engineering_mode, original_settings, configMode, opVars, sweepVars,
                   clientVars, unitVars, maVars, cal_pc, actual_distances,
                   samples_per_distance, dist_index, calibration_data, batches>>

NextCalibrateLive ==
    \/ StartCalibration
    \/ CalibrateRead
    \/ CalibrateReadUntraced
    \/ CalibrateStore

\* the collection loop is waiting for a valid Reading
LoopWaiting == cal_pc = "measure" /\ Len(measurements) < samples_per_distance

\* the stream goes on yielding valid Readings: a loop that waits forever
\* reads a valid Reading again and again
StreamFairness ==
    \/ []<>(~LoopWaiting)
    \/ []<><<CalibrateReadValid>>_vars

\* calibrate_distance with no assumption on the stream: only the code after
\* the loop is sure to run once the loop has ended
SpecCalibrateUnfair ==
    /\ Init
    /\ [][NextCalibrateLive]_vars
    /\ WF_vars(CalibrateStore)

\* the same with a stream that goes on yielding valid Readings
SpecCalibrateLive ==
    /\ Init
    /\ [][NextCalibrateLive]_vars
    /\ WF_vars(CalibrateStore)
    /\ StreamFairness

---------------------------------------------------------------------------
(* A client that reads frames between configuration operations *)

\* what the module streams while the host waits in read_frame
PollChunks == {ReportNoTarget, ReportMoving, <<>>}

\* one read_frame call between two operations
PollFrame ==
    /\ pc = "idle" /\ spc = "none"
    /\ \E chunk \in PollChunks :
         LET f == ReadFrame(chunk)
         IN  /\ rx' = f.rest
             /\ readings_buffer' = f.buffer
    /\ UNCHANGED <<engineering_mode, original_settings, configMode, opVars, sweepVars>>
    /\ UNCHANGED sideVars

NextMixed ==
    \/ CallEnableEngineeringMode
    \/ CallDisableEngineeringMode
    \/ CallBackupSettings
    \/ CallRestoreFactoryDefaults
    \/ CallConfigureDetectionGates
    \/ CallConfigureSensitivity
    \/ EnterConfig
    \/ MainEnableEngineeringMode
    \/ MainDisableEngineeringMode
    \/ MainBackupSettings
    \/ MainRestoreFactoryDefaults
    \/ MainConfigureDetectionGates
    \/ MainConfigureSensitivity
    \/ Restart
    \/ ExitConfig
    \/ PollFrame

SpecMixed == Init /\ [][NextMixed]_vars

---------------------------------------------------------------------------
(* Properties *)

\* an operation has returned
Completed == pc = "idle" /\ op.name # "none"

\* exit-config commands written by the operation
ExitCount == Cardinality({k \in DOMAIN sent : sent[k].word = EXIT_CONFIG})

\* the exchanges of the operation's main command
MainWords == {ENABLE_ENG, DISABLE_ENG, GET_PARAMS, SET_MAX_GATES, SET_SENS, FACTORY_RESET}
MainExchanges == {k \in DOMAIN exch : exch[k].word \in MainWords}

\* the documented command frame, written out byte by byte
WireFrame(word, value) ==
    LET n == Len(word) + Len(value)
    IN  <<253, 252, 251, 250>> \o <<n % 256, n \div 256>> \o word \o value
            \o <<4, 3, 2, 1>>

\* C1: an operation whose enable_configuration succeeded writes exactly one
\* exit-config command (FE 00), as its last command, before it returns,
\* whatever the module answered to the main command; no exit-config is
\* written while the operation is still running or when no session was opened.
C1_SessionClosedOnce ==
    /\ Completed /\ opened =>
           ExitCount = 1 /\ sent[Len(sent)].word = EXIT_CONFIG
    /\ (pc # "idle" \/ ~opened) => ExitCount = 0

\* C1 witness: disable_engineering_mode returned after its 63 00 command
\* timed out, with one exit-config written.
C1_Witness ==
    /\ Completed /\ opened /\ op.name = "disable_engineering_mode"
    /\ \E k \in MainExchanges : exch[k].reply.kind = "none"
    /\ ExitCount = 1

\* C2: when an exchange of the operation timed out (the module's answer did
\* not arrive), the operation returns failure and the module is not left in
\* configuration mode.
C2_TimeoutFailsAndCloses ==
    (Completed /\ \E k \in DOMAIN exch : exch[k].reply.kind = "none")
        => (ret = FALSE /\ ~configMode)

\* C3: when the response read for the main command is shorter than 12 bytes,
\* the operation returns failure and exit-config was written exactly once.
C3_ShortMainResponseFails ==
    (Completed /\ \E k \in MainExchanges : Len(exch[k].raw) < 12)
        => (ret = FALSE /\ ExitCount = 1)

\* C4: an operation returns failure when the module answered its main command
\* with a nonzero status, and returns success only when the module answered
\* it with status zero.
C4_StatusDecidesResult ==
    Completed =>
        /\ \A k \in MainExchanges :
               (exch[k].reply.kind = "ack" /\ exch[k].reply.status # 0) => ret = FALSE
        /\ ret = TRUE =>
               \E k \in MainExchanges :
                   exch[k].reply.kind # "none" /\ exch[k].reply.status = 0

\* C5: engineering_mode differs from its value at the call only in
\* enable_engineering_mode / disable_engineering_mode and only when the
\* module answered 62 00 / 63 00 with a complete status-zero ACK.
C5_FlagChangesOnlyOnSuccess ==
    engineering_mode # eng_before =>
        /\ op.name \in {"enable_engineering_mode", "disable_engineering_mode"}
        /\ \E k \in MainExchanges : exch[k].reply = [status |-> 0, kind |-> "ack"]

\* C6: enable_configuration / end_configuration return success iff the
\* module's response frame is at least 12 bytes long and the status field at
\* offsets 8-9 of that frame is zero.
C6_BracketResultIffStatusZero ==
    \A k \in DOMAIN exch :
        exch[k].word \in {ENTER_CONFIG, EXIT_CONFIG} =>
            LET frame == ModuleReply(exch[k].word, exch[k].reply)
            IN  exch[k].result <=>
                    (Len(frame) >= 12 /\ frame[9] + 256 * frame[10] = 0)

\* C7: every frame written to the transport is header ++ u16-LE(len(word) +
\* len(value)) ++ word ++ value ++ tail, with a 2-byte word, the hand-framed
\* disable-engineering command included.
C7_WireFormat ==
    /\ \A k \in DOMAIN sent :
          /\ Len(sent[k].word) = 2
          /\ sent[k].bytes = WireFrame(sent[k].word, sent[k].value)
    /\ \A word \in {<<0, 0>>, <<255, 0>>, <<98, 1>>, <<255, 255>>} :
          \A n \in {0, 1, 2, 18, 253, 254, 255, 300} :
              \A b \in {0, 4, 255} :
                  CommandFrame(word, [i \in 1..n |-> b])
                      = WireFrame(word, [i \in 1..n |-> b])

\* C7 witness: an operation wrote the hand-framed 63 00 command after an
\* enter-config command carrying a value.
C7_Witness ==
    /\ Len(sent) >= 2
    /\ sent[1].bytes = <<253, 252, 251, 250, 4, 0, 255, 0, 1, 0, 4, 3, 2, 1>>
    /\ sent[2].bytes = <<253, 252, 251, 250, 2, 0, 99, 0, 4, 3, 2, 1>>

\* C8: once the sweep has called read_frame for a sensitivity s, a
\* set-sensitivity command (64 00) with the ALL selector and s for both
\* sensitivities was written inside a configuration session by the
\* configure call that preceded the sampling.
C8_SensitivitySetBeforeSampling ==
    (spc = "sample" /\ attempt > 0) =>
        \E k \in DOMAIN sent :
            /\ sent[k].word = SET_SENS
            /\ sent[k].value = SensitivityValue(255, sensitivity, sensitivity)
            /\ \E j \in 1..(k - 1) : sent[j].word = ENTER_CONFIG
            /\ \A j \in 1..k : sent[j].word # EXIT_CONFIG

\* C9: the sweep returns the maximum rate over the tested sensitivities and
\* the first tested sensitivity that achieves it.
C9_BestIsFirstMaximum ==
    (spc = "done" /\ rates # <<>>) =>
        \E k \in DOMAIN rates :
            /\ best_sensitivity = rates[k].s
            /\ best_detection_rate.num * rates[k].den
                   = rates[k].num * best_detection_rate.den
            /\ \A j \in DOMAIN rates : ~RateGreater(rates[j], rates[k])
            /\ \A j \in 1..(k - 1) : RateGreater(rates[k], rates[j])

\* C10: each of the K attempts counted for a sensitivity is a valid Reading
\* returned by read_frame (a cycle yielding no Reading consumes no attempt),
\* and the rate is the number of those with a target over K.
C10_AttemptsAreValidReadings ==
    \A k \in DOMAIN rates :
        /\ rates[k].valid = rates[k].den
        /\ rates[k].den = params.samples

---------------------------------------------------------------------------
(* Properties of the decoder and the history buffer *)

\* the validity invariant of a Reading, as documented
ValidReading(r) ==
    ~ \/ r.detection_distance < 0 \/ r.detection_distance > 600
      \/ r.moving_target_energy < -100 \/ r.moving_target_energy > 100
      \/ r.static_target_energy < -100 \/ r.static_target_energy > 100
      \/ r.target_state = "UNKNOWN"

\* the read_frame calls made so far, and the Readings they returned, in order
ReadCalls == {k \in DOMAIN calls : calls[k].call = "read_frame"}
IsReturned(c) == c.result # <<>>
Accepted ==
    LET returned == SelectSeq(calls, IsReturned)
    IN  [i \in 1..Len(returned) |-> returned[i].result[1]]

\* a report frame whose length field agrees with its header-to-tail span
WellFormedReport(f) ==
    /\ Len(f) >= 10
    /\ SubSeq(f, 1, 4) = <<244, 243, 242, 241>>
    /\ SubSeq(f, Len(f) - 3, Len(f)) = <<248, 247, 246, 245>>
    /\ Len(f) = 10 + f[5] + 256 * f[6]

\* the bytes between AA and 55 00 of a well-formed report frame
PayloadOf(f) == SubSeq(f, 9, Len(f) - 6)

\* C12: every Reading in readings_buffer is valid; a read_frame call returns
\* a Reading only if it is valid and is the newest buffer entry after the
\* call; a decoded Reading that is not valid is not returned, leaves the
\* buffer as it was, and no error leaves read_frame.
C12_OnlyValidReadingsReturnedAndBuffered ==
    /\ \A i \in DOMAIN readings_buffer : ValidReading(readings_buffer[i])
    /\ \A k \in ReadCalls :
           LET c == calls[k]
           IN  /\ c.result # <<>> =>
                      /\ c.result = c.candidate
                      /\ ValidReading(c.result[1])
                      /\ c.after # <<>> /\ c.after[Len(c.after)] = c.result[1]
               /\ (c.candidate # <<>> /\ ~ValidReading(c.candidate[1])) =>
                      /\ c.result = <<>>
                      /\ c.after = c.before
                      /\ ~c.escaped
               /\ c.result = <<>> => c.after = c.before

\* C12 witness: one call decoded a Reading with state UNKNOWN and returned
\* nothing, another returned a Reading that is in the buffer.
C12_Witness ==
    /\ \E k \in ReadCalls :
           /\ calls[k].candidate # <<>>
           /\ calls[k].candidate[1].target_state = "UNKNOWN"
           /\ calls[k].result = <<>>
    /\ \E k \in ReadCalls : calls[k].result # <<>>
    /\ readings_buffer # <<>>

\* C13: readings_buffer never holds more than max_buffer_size Readings and
\* is exactly the last min(n, max_buffer_size) of the n Readings returned so
\* far, in arrival order.
C13_BufferIsLastReadings ==
    LET n == Len(Accepted)
        m == IF n <= max_buffer_size THEN n ELSE max_buffer_size
    IN  /\ Len(readings_buffer) <= max_buffer_size
        /\ readings_buffer = [i \in 1..m |-> Accepted[n - m + i]]

\* C13 witness: more Readings were returned than the buffer holds, the
\* oldest differs from the others and is gone.
C13_Witness ==
    /\ Len(Accepted) = max_buffer_size + 1
    /\ Len(readings_buffer) = max_buffer_size
    /\ Accepted[1] # Accepted[2]
    /\ readings_buffer[1] = Accepted[2]
    /\ readings_buffer[1] # readings_buffer[max_buffer_size]

\* C14: when the line read_frame decoded is a well-formed report frame
\* preceded by other bytes, read_frame returns nothing or the Reading whose
\* fields are those of that frame.
C14_PayloadLocatedFromHeader ==
    \A k \in ReadCalls :
        LET c == calls[k]
        IN  \A n \in 2..Len(c.line) :
                LET f == SubSeq(c.line, n, Len(c.line))
                IN  WellFormedReport(f) =>
                        \/ c.result = <<>>
                        \/ c.result = DecodeFrame(f, c.flag)

\* C15: read_frame returns a Reading only from a line whose header-to-tail
\* span agrees with the length field that follows the header.
C15_LengthFieldHonoured ==
    \A k \in ReadCalls :
        LET c == calls[k]
        IN  (c.result # <<>> /\ Len(c.line) >= 6
                 /\ SubSeq(c.line, 1, 4) = <<244, 243, 242, 241>>)
                => Len(c.line) = 10 + c.line[5] + 256 * c.line[6]

\* C16: in engineering mode, a well-formed frame with more than 9 data bytes
\* and valid basic fields is returned, and its gate energies are the first
\* min(max_moving_gate + 1, available) bytes after the two gate counts and
\* the next min(max_static_gate + 1, remaining) bytes; no exception is
\* caught on the way.
C16_GateEnergiesTruncated ==
    \A k \in ReadCalls :
        LET c       == calls[k]
            payload == PayloadOf(c.line)
            eng     == SubSeq(payload, 10, Len(payload))
            avail   == Len(eng) - 2
            mm      == eng[1]
            ms      == eng[2]
            nm      == IF mm + 1 <= avail THEN mm + 1 ELSE avail
            left    == IF avail - (mm + 1) < 0 THEN 0 ELSE avail - (mm + 1)
            ns      == IF ms + 1 <= left THEN ms + 1 ELSE left
        IN  (/\ c.flag /\ WellFormedReport(c.line) /\ Len(payload) > 9
             /\ ValidReading(ParseBasic(SubSeq(payload, 1, 9), NoEngineeringData)))
                => /\ c.caught = "none"
                   /\ c.result # <<>>
                   /\ c.result[1].engineering_data.moving_energy_gates
                          = SubSeq(eng, 3, 2 + nm)
                   /\ c.result[1].engineering_data.static_energy_gates
                          = SubSeq(eng, 3 + mm + 1, 3 + mm + ns)

\* C18: get_motion_status(W) returns (False, False) when fewer than W
\* entries exist; otherwise motion is detected iff one of the last W entries
\* is MOVING or BOTH, static iff one of the last W entries is STATIC or BOTH.
C18_MotionStatusOverLastW ==
    LET b    == motion_status.buffer
        W    == motion_status.window_size
        last == {i \in DOMAIN b : i > Len(b) - W}
    IN  IF Len(b) < W
        THEN ~motion_status.motion_detected /\ ~motion_status.static_detected
        ELSE /\ motion_status.motion_detected <=>
                    \E i \in last : b[i].target_state \in {"MOVING_TARGET", "BOTH_TARGETS"}
             /\ motion_status.static_detected <=>
                    \E i \in last : b[i].target_state \in {"STATIC_TARGET", "BOTH_TARGETS"}

\* C20: a failure of the serial read or write during a call leaves the call
\* as an error.
C20_TransportErrorSurfaced ==
    \A k \in DOMAIN calls : calls[k].fault => calls[k].escaped

---------------------------------------------------------------------------
(* Properties of is_valid, of the payload decoding and of MovingAverage *)

\* C11: is_valid() is false iff detection_distance is outside [0, 600], or
\* an energy is outside [-100, 100], or the state is UNKNOWN.
C11_IsValidBoundaries ==
    unit = "is_valid" =>
        (output = FALSE <=>
            \/ input.detection_distance \notin 0..600
            \/ input.moving_target_energy \notin -100..100
            \/ input.static_target_energy \notin -100..100
            \/ input.target_state = "UNKNOWN")

\* C11 witness: a Reading on the accepted boundaries 600, -100 and 100 was
\* found valid.
C11_Witness ==
    /\ unit = "is_valid"
    /\ input.detection_distance = 600
    /\ input.moving_target_energy = -100
    /\ input.static_target_energy = 100
    /\ input.target_state # "UNKNOWN"
    /\ output = TRUE

\* C17: decoding the frame that encodes the fields returns a Reading with
\* exactly the encoded moving distance, moving energy, static distance,
\* static energy and detection distance.
C17_NumericFieldsRoundTrip ==
    unit = "read_frame" =>
        /\ output # <<>>
        /\ output[1].moving_target_distance = input.md
        /\ output[1].moving_target_energy = input.me
        /\ output[1].static_target_distance = input.sd
        /\ output[1].static_target_energy = input.se
        /\ output[1].detection_distance = input.dd

\* the last min(k, n) entries of the first k entries of s
LastOf(s, k, n) ==
    LET m == IF k <= n THEN k ELSE n
    IN  [i \in 1..m |-> s[k - m + i]]

\* the total of a sequence of numbers
RECURSIVE Total(_, _)
Total(s, k) == IF k = 0 THEN 0 ELSE s[k] + Total(s, k - 1)

\* C19: the stored values are the last min(n, N) samples in arrival order;
\* each add(x) returned the arithmetic mean of the values stored after it,
\* x being the newest of them; the average is 0 when nothing was added.
C19_MovingAverageWindow ==
    /\ values = LastOf(added, Len(added), ma_size)
    /\ Len(averages) = Len(added)
    /\ \A k \in DOMAIN averages :
           LET stored == LastOf(added, k, ma_size)
           IN  IF stored = <<>> THEN averages[k].num = 0
               ELSE /\ stored[Len(stored)] = added[k]
                    /\ averages[k].num * Len(stored)
                           = Total(stored, Len(stored)) * averages[k].den
    /\ added = <<>> => average(values).num = 0

\* C19 witness: MovingAverage(3) fed 10, 20, 30, 40 returned 10, 15, 20, 30.
C19_Witness ==
    /\ ma_size = 3
    /\ added = <<10, 20, 30, 40>>
    /\ values = <<20, 30, 40>>
    /\ \A k \in 1..4 : averages[k].num = <<10, 15, 20, 30>>[k] * averages[k].den

---------------------------------------------------------------------------
(* Properties of the argument checks, the command order and the values *)

\* C21: configure_detection_gates accepts exactly gates in [1,8];
\* configure_sensitivity accepts exactly a gate in [0,8] or the ALL selector
\* 0xFF with both sensitivities in [0,100].  A rejected call returns failure
\* with nothing written and no session opened; an accepted call goes on to
\* the command exchange.
C21_ArgumentsChecked ==
    LET accepted ==
            IF op.name = "configure_detection_gates"
            THEN op.args[1] \in 1..8 /\ op.args[2] \in 1..8
            ELSE /\ op.args[1] \in (0..8) \cup {255}
                 /\ op.args[2] \in 0..100
                 /\ op.args[3] \in 0..100
    IN  op.name \in {"configure_detection_gates", "configure_sensitivity"} =>
            IF accepted THEN pc # "idle" \/ sent # <<>>
            ELSE pc = "idle" /\ ret = FALSE /\ sent = <<>> /\ ~opened

\* one (parameter index, value) pair: 2-byte little-endian index, 4-byte
\* little-endian value, written out byte by byte
ParamPair(index, v) ==
    <<index % 256, index \div 256,
      v % 256, (v \div 256) % 256, (v \div 65536) % 256, (v \div 16777216) % 256>>

\* GatesValue and SensitivityValue on values that use all four value bytes
ParamValueBytes ==
    \A v \in {0, 1, 8, 100, 255, 256, 65536, 16909060, 2147483647} :
           /\ GatesValue(v, 8) = ParamPair(0, v) \o ParamPair(1, 8) \o ParamPair(2, 5)
           /\ GatesValue(1, v) = ParamPair(0, 1) \o ParamPair(1, v) \o ParamPair(2, 5)
           /\ SensitivityValue(v, 100, 0)
                  = ParamPair(0, v) \o ParamPair(1, 100) \o ParamPair(2, 0)
           /\ SensitivityValue(8, v, 0) = ParamPair(0, 8) \o ParamPair(1, v) \o ParamPair(2, 0)
           /\ SensitivityValue(8, 0, v) = ParamPair(0, 8) \o ParamPair(1, 0) \o ParamPair(2, v)

\* C29: the value of set-max-gates is (0, moving_gate), (1, static_gate),
\* (2, 5) and the value of set-sensitivity is (0, gate), (1,
\* motion_sensitivity), (2, static_sensitivity), each pair a 2-byte
\* little-endian index and a 4-byte little-endian value, 18 bytes in all,
\* in a frame whose length field is 20.
C29_ParameterValueEncoding ==
    /\ \A k \in DOMAIN sent :
           /\ sent[k].word = SET_MAX_GATES =>
                  /\ sent[k].value = ParamPair(0, op.args[1]) \o ParamPair(1, op.args[2])
                                         \o ParamPair(2, 5)
                  /\ Len(sent[k].value) = 18
                  /\ SubSeq(sent[k].bytes, 5, 6) = <<20, 0>>
           /\ sent[k].word = SET_SENS =>
                  /\ sent[k].value = ParamPair(0, op.args[1]) \o ParamPair(1, op.args[2])
                                         \o ParamPair(2, op.args[3])
                  /\ Len(sent[k].value) = 18
                  /\ SubSeq(sent[k].bytes, 5, 6) = <<20, 0>>
    /\ ParamValueBytes

\* C29 witness: configure_sensitivity(8, 100, 0) wrote its 64 00 command.
C29_Witness ==
    /\ op.name = "configure_sensitivity" /\ op.args = <<8, 100, 0>>
    /\ \E k \in DOMAIN sent :
           /\ sent[k].word = SET_SENS
           /\ sent[k].bytes = <<253, 252, 251, 250, 20, 0, 100, 0,
                                0, 0, 8, 0, 0, 0, 1, 0, 100, 0, 0, 0, 2, 0, 0, 0, 0, 0,
                                4, 3, 2, 1>>

\* the command words written by the operation, in order
SentWords == [k \in DOMAIN sent |-> sent[k].word]

\* the bytes read as the response of exchange k are at least 12 and carry
\* a zero status at offsets 8-9
ReadStatusZero(k) ==
    /\ Len(exch[k].raw) >= 12
    /\ exch[k].raw[9] = 0 /\ exch[k].raw[10] = 0

\* C24: restore_factory_defaults writes enter-config, factory-reset, then
\* restart only if the reset response had status zero, then exit-config;
\* it returns the success of the reset exchange.  (The 2-second delay after
\* the restart is not part of the model.)
C24_FactoryResetOrder ==
    op.name = "restore_factory_defaults" =>
        /\ \E n \in 0..4 :
               \/ SentWords = SubSeq(<<ENTER_CONFIG, FACTORY_RESET, RESTART, EXIT_CONFIG>>, 1, n)
               \/ SentWords = SubSeq(<<ENTER_CONFIG, FACTORY_RESET, EXIT_CONFIG>>, 1, n)
        /\ \A k \in DOMAIN sent :
               /\ sent[k].word = RESTART => ReadStatusZero(2)
               /\ (sent[k].word = EXIT_CONFIG /\ ReadStatusZero(2)) => k = 4
        /\ (Completed /\ opened) =>
               /\ sent[Len(sent)].word = EXIT_CONFIG
               /\ ret = ReadStatusZero(2)

\* C24 witness: a reset that succeeded was followed by restart and
\* exit-config, and the operation returned success.
C24_Witness ==
    /\ Completed /\ op.name = "restore_factory_defaults"
    /\ SentWords = <<ENTER_CONFIG, FACTORY_RESET, RESTART, EXIT_CONFIG>>
    /\ ret = TRUE

\* C26: the response an exchange returns holds the bytes of the module's
\* answer to the command just written, and nothing else.
C26_ResponseIsOwnAck ==
    \A k \in DOMAIN exch : exch[k].raw = ModuleReply(exch[k].word, exch[k].reply)

\* C27: an exchange counts as successful only if the bytes read are at
\* least 12, begin with FD FC FB FA and end with 04 03 02 01.
C27_ResponseFramed ==
    \A k \in DOMAIN exch :
        exch[k].result =>
            /\ Len(exch[k].raw) >= 12
            /\ SubSeq(exch[k].raw, 1, 4) = <<253, 252, 251, 250>>
            /\ SubSeq(exch[k].raw, Len(exch[k].raw) - 3, Len(exch[k].raw)) = <<4, 3, 2, 1>>

\* C28: a parameter or mode command is written only after the operation's
\* enter-config exchange returned status zero and before its exit-config;
\* when enter-config fails nothing more is written and the operation
\* returns failure.
C28_CommandsInsideSession ==
    /\ \A k \in DOMAIN sent :
           sent[k].word \in MainWords \cup {RESTART} =>
               /\ k >= 2
               /\ sent[1].word = ENTER_CONFIG
               /\ ReadStatusZero(1)
               /\ \A j \in 1..k : sent[j].word # EXIT_CONFIG
    /\ (Len(exch) >= 1 /\ ~ReadStatusZero(1)) =>
           /\ Len(sent) = 1
           /\ pc = "idle"
           /\ ret = FALSE

\* C28 witness: backup_settings wrote 61 00 between a successful
\* enter-config and exit-config.
C28_Witness ==
    /\ Completed /\ op.name = "backup_settings"
    /\ SentWords = <<ENTER_CONFIG, GET_PARAMS, EXIT_CONFIG>>
    /\ ReadStatusZero(1)
    /\ ret = TRUE

\* C23: bytes 0, 1, 2, 3 decode to NO_TARGET, MOVING_TARGET, STATIC_TARGET,
\* BOTH_TARGETS and every other byte to UNKNOWN; a frame with such a state
\* byte is decoded without an exception, and read_frame returns a Reading
\* for a known state and nothing for an unknown one.
C23_StateByteTotal ==
    unit = "parse_target_state" =>
        /\ output.state =
               IF input \in 0..3
               THEN <<"NO_TARGET", "MOVING_TARGET", "STATIC_TARGET", "BOTH_TARGETS">>[input + 1]
               ELSE "UNKNOWN"
        /\ output.decode.caught = "none"
        /\ output.decode.candidate # <<>>
        /\ output.decode.candidate[1].target_state = output.state
        /\ IF input \in 0..3 THEN output.result = output.decode.candidate
           ELSE output.result = <<>>

\* C23 witness: the byte 3 decoded to BOTH_TARGETS and its frame was returned.
C23_Witness ==
    /\ unit = "parse_target_state"
    /\ input = 3
    /\ output.state = "BOTH_TARGETS"
    /\ output.result # <<>>

---------------------------------------------------------------------------
(* Properties of the engineering payload, of calibrate_distance and of the
   effects of commands and reads *)

\* C25: a Reading returned by read_frame carries an engineering payload iff
\* the engineering-mode flag was set at the call and the payload of the
\* frame read (the bytes after the 8 leading and before the 6 trailing
\* bytes) is longer than 9 bytes; otherwise engineering_data is absent; in
\* both cases the basic fields are those of the first 9 payload bytes.
C25_EngineeringPayloadPresence ==
    \A k \in ReadCalls :
        LET c       == calls[k]
            payload == SubSeq(c.line, 9, Len(c.line) - 6)
        IN  c.result # <<>> =>
                /\ c.result[1].engineering_data.present <=> (c.flag /\ Len(payload) > 9)
                /\ ~c.result[1].engineering_data.present =>
                       c.result[1].engineering_data = NoEngineeringData
                /\ c.result[1].target_state = parse_target_state(payload[1])
                /\ c.result[1].moving_target_distance
                       = FromBytesLESigned(SubSeq(payload, 2, 3))
                /\ c.result[1].moving_target_energy = FromBytesLESigned(SubSeq(payload, 4, 4))
                /\ c.result[1].static_target_distance
                       = FromBytesLESigned(SubSeq(payload, 5, 6))
                /\ c.result[1].static_target_energy = FromBytesLESigned(SubSeq(payload, 7, 7))
                /\ c.result[1].detection_distance
                       = Abs(FromBytesLESigned(SubSeq(payload, 8, 9)))

\* C25 witness: with the flag set, one frame with a 14-byte payload was
\* returned with its gate energies and one frame with a 9-byte payload was
\* returned without engineering data.
C25_Witness ==
    /\ \E k \in ReadCalls :
           /\ calls[k].flag /\ calls[k].line = ReportEngineering
           /\ calls[k].result # <<>>
           /\ calls[k].result[1].engineering_data.present
           /\ calls[k].result[1].engineering_data.moving_energy_gates = <<10, 20, 30>>
    /\ \E k \in ReadCalls :
           /\ calls[k].flag /\ calls[k].line = ReportMoving
           /\ calls[k].result # <<>>
           /\ ~calls[k].result[1].engineering_data.present

\* the detection distances of the Readings among the read_frame results rs
RECURSIVE DistancesOf(_)
DistancesOf(rs) ==
    IF rs = <<>> THEN <<>>
    ELSE (IF rs[1] = <<>> THEN <<>> ELSE <<rs[1][1].detection_distance>>)
             \o DistancesOf(Tail(rs))

\* exact equality of the stored entry e with the mean, error and
\* error_percent of the measurements ms for `distance`
EntryFrom(e, ms, distance) ==
    LET M     == Len(ms)
        total == Total(ms, M)
    IN  /\ e.measured_avg.num * M = total * e.measured_avg.den
        /\ e.error.num * M = (total - M * distance) * e.error.den
        /\ e.error_percent.num * (M * distance)
               = 100 * (total - M * distance) * e.error_percent.den

\* C22: for each requested distance calibrate_distance uses exactly
\* samples_per_distance measurements, each the detection_distance of a valid
\* Reading read_frame returned (calls returning None add nothing), and the
\* result holds one entry per requested distance, with error = mean -
\* distance and error_percent = 100 * error / distance computed from that
\* distance's measurements.
C22_CalibrationEntries ==
    /\ \A k \in DOMAIN batches :
           /\ Len(batches[k].measurements) = samples_per_distance
           /\ batches[k].measurements = DistancesOf(batches[k].reads)
           /\ \A i \in DOMAIN batches[k].reads :
                  batches[k].reads[i] # <<>> => ValidReading(batches[k].reads[i][1])
           /\ batches[k].distance = actual_distances[k]
           /\ batches[k].distance \in DOMAIN calibration_data
           /\ EntryFrom(calibration_data[batches[k].distance],
                        batches[k].measurements, batches[k].distance)
    /\ Cardinality(DOMAIN calibration_data) = Len(batches)
    /\ cal_pc = "done" => Len(batches) = Len(actual_distances)


\* C30: a step of a command operation (enter/exit configuration, the
\* engineering-mode commands, backup, gates, sensitivity, factory reset and
\* restart) leaves readings_buffer as it was, and a read_frame call leaves
\* the engineering-mode flag as it was.
C30_OnlyFlagCrosses ==
    [][/\ opVars' # opVars => readings_buffer' = readings_buffer
       /\ opVars' = opVars => engineering_mode' = engineering_mode]_vars

\* C30 witness: an operation that changed the engineering-mode flag has
\* completed with two different Readings in the buffer.
C30_Witness ==
    /\ Completed
    /\ engineering_mode # eng_before
    /\ Len(readings_buffer) = 2
    /\ readings_buffer[1] # readings_buffer[2]


---------------------------------------------------------------------------
(* Properties of backup_settings, of the sweep's result and of the
   termination of calibrate_distance *)

\* the responses send_command returned for get-parameters (61 00) in the
\* operation in progress or just completed
ParamResponses ==
    {IF Len(exch[k].raw) < 12 THEN <<>> ELSE exch[k].raw :
         k \in {j \in DOMAIN exch : exch[j].word = GET_PARAMS}}

\* C31: backup_settings returns true iff the get-parameters exchange of that
\* same call returned a parameter block (a response of 30 bytes or more),
\* and original_settings is then the block of that response; a call whose
\* exchange fails does not return true because of a block an earlier call
\* stored.
C31_BackupOfThisCall ==
    (Completed /\ op.name = "backup_settings") =>
        /\ ret <=> \E response \in ParamResponses : Len(response) >= 30
        /\ ret => \E response \in ParamResponses :
                      /\ Len(response) >= 30
                      /\ original_settings = SliceDrop(response, 8, 4)


\* C32: when find_optimal_sensitivity returns with min_sensitivity <=
\* max_sensitivity, best_sensitivity is one of the sensitivities the sweep
\* tested and best_detection_rate is the rate measured at it, also when no
\* attempt detected a target.
C32_BestWasTested ==
    (spc = "done" /\ params.min_sensitivity <= params.max_sensitivity) =>
        \E k \in DOMAIN rates :
            /\ rates[k].s = best_sensitivity
            /\ rates[k].s \in {params.min_sensitivity + 5 * i : i \in 0..MaxSweepIndex}
            /\ rates[k].s <= params.max_sensitivity
            /\ best_detection_rate.num * rates[k].den
                   = rates[k].num * best_detection_rate.den


====
